---- MODULE Spec2Model ----
(***************************************************************************)
(* Hospital triage: the priority triage session of optimized.py (heap,     *)
(* identifier BST, doctor rotation, served-history stack) and the FCFS     *)
(* queue of baseline.py.                                                   *)
(*                                                                         *)
(* Python objects that are shared by reference (Patient) live in a memory  *)
(* `patients` (reference -> fields); the heap entries and the tree nodes   *)
(* hold references, so a write through one structure is seen by the other. *)
(* Optional values: None is the empty sequence, a value x is <<x>>.        *)
(* Linked nodes are numbered from 1; the node pointer None is 0.           *)
(***************************************************************************)
EXTENDS Integers, Sequences, FiniteSets, TLC

\* ---------------------------------------------------------------- bounds
MaxArrivals == 3        \* admissions per session (arrival_counter cap)
MaxCapacity == 3        \* largest capacity a lone stack / queue is built with
MaxDoctors  == 3        \* longest name list a lone rotation is built from
MaxCalls    == 7        \* next_doctor calls followed on a lone rotation

\* ------------------------------------------------------------ input sets
\* The menus accept any integer identifier and severities 1..5.
Severities    == {3, 5}
Ids           == {1, 2, 3}
PatientNames  == {"Ali"}
DoctorCounts  == {1, 2}                          \* num_docs at start-up
HistorySizes  == {1, 2}                          \* history_size at start-up
DoctorName(i) == IF i = 1 THEN "Dr1" ELSE IF i = 2 THEN "Dr2" ELSE "Dr3"
DoctorPool    == {"Dr1", "Dr2", "Dr3"}
Entries       == {"A", "B", "C"}                 \* history entries of a lone stack

None == <<>>
Some(x) == <<x>>

\* ------------------------------------------------------------ Patient
\* baseline.py dataclass Patient(id, name, severity, arrival_time)
Patient(id, name, severity, arrival_time) ==
    [id |-> id, name |-> name, severity |-> severity, arrival_time |-> arrival_time]

\* ------------------------------------------------------- DoctorRotation
\* The object: nodes = sequence of [name, next_ptr] (next_ptr an index into
\* nodes), current = index of the current node.
\* Mutant: the last node is not linked back to the first.
DoctorRotation_build_no_wrap(doctor_names) ==
    [nodes   |-> [i \in 1..Len(doctor_names) |->
                     [name |-> doctor_names[i],
                      next_ptr |-> IF i < Len(doctor_names) THEN i + 1 ELSE i]],
     current |-> 1]

DoctorRotation_build(doctor_names) ==
    [nodes   |-> [i \in 1..Len(doctor_names) |->
                     [name |-> doctor_names[i],
                      next_ptr |-> ((i + 1 - 1) % Len(doctor_names)) + 1]],
     current |-> 1]

\* Mutant: the emptiness check is missing.
DoctorRotation_init_unchecked(doctor_names) ==
    [raised |-> "none", obj |-> Some(DoctorRotation_build(doctor_names))]

\* DoctorRotation.__init__: raises ValueError on an empty list.
DoctorRotation_init(doctor_names) ==
    IF Len(doctor_names) = 0
    THEN [raised |-> "ValueError", obj |-> None]
    ELSE [raised |-> "none", obj |-> Some(DoctorRotation_build(doctor_names))]

\* Mutant: the cursor moves first and the name it lands on is returned.
next_doctor_moves_first(rot) ==
    [name |-> rot.nodes[rot.nodes[rot.current].next_ptr].name,
     rot  |-> [rot EXCEPT !.current = rot.nodes[rot.current].next_ptr]]

\* DoctorRotation.next_doctor: returns the current name, moves to next_ptr.
next_doctor(rot) ==
    [name |-> rot.nodes[rot.current].name,
     rot  |-> [rot EXCEPT !.current = rot.nodes[rot.current].next_ptr]]

\* k successive next_doctor calls (the start-up display loop).
RECURSIVE next_doctor_times(_, _)
next_doctor_times(rot, k) ==
    IF k = 0 THEN rot ELSE next_doctor_times(next_doctor(rot).rot, k - 1)

\* ---------------------------------------------------- ServedHistoryStack
\* The object: head = the linked entries, top first; size; capacity.
Stack_init(max_capacity) ==
    [head |-> <<>>, size |-> 0, capacity |-> max_capacity]

Stack_is_full(st) == st.size >= st.capacity

Stack_is_empty(st) == st.head = <<>>

\* Mutant: a full stack evicts its oldest entry instead of rejecting the new one.
Stack_push_evicts_oldest(st, value) ==
    IF st.size >= st.capacity /\ st.head # <<>>
    THEN [st |-> [st EXCEPT !.head = <<value>> \o SubSeq(st.head, 1, Len(st.head) - 1)],
          ret |-> None, printed |-> "none"]
    ELSE [st |-> [st EXCEPT !.head = <<value>> \o st.head, !.size = st.size + 1],
          ret |-> None, printed |-> "none"]

\* push returns None on both paths; on a full stack it only prints an error.
Stack_push(st, value) ==
    IF Stack_is_full(st)
    THEN [st |-> st, ret |-> None, printed |-> "error"]
    ELSE [st |-> [st EXCEPT !.head = <<value>> \o st.head, !.size = st.size + 1],
          ret |-> None, printed |-> "none"]

\* Mutant: pop takes the oldest entry, the far end of the list.
Stack_pop_oldest(st) ==
    IF Stack_is_empty(st)
    THEN [st |-> st, ret |-> None, printed |-> "error"]
    ELSE [st |-> [st EXCEPT !.head = SubSeq(st.head, 1, Len(st.head) - 1),
                            !.size = st.size - 1],
          ret |-> Some(st.head[Len(st.head)]), printed |-> "none"]

\* Mutant: pop unlinks the head but does not count the size down.
Stack_pop_keeps_size(st) ==
    IF Stack_is_empty(st)
    THEN [st |-> st, ret |-> None, printed |-> "error"]
    ELSE [st |-> [st EXCEPT !.head = Tail(st.head)],
          ret |-> Some(Head(st.head)), printed |-> "none"]

Stack_pop(st) ==
    IF Stack_is_empty(st)
    THEN [st |-> st, ret |-> None, printed |-> "error"]
    ELSE [st |-> [st EXCEPT !.head = Tail(st.head), !.size = st.size - 1],
          ret |-> Some(Head(st.head)), printed |-> "none"]

Stack_peek(st) ==
    IF Stack_is_empty(st)
    THEN [st |-> st, ret |-> None, printed |-> "error"]
    ELSE [st |-> st, ret |-> Some(Head(st.head)), printed |-> "none"]

\* ------------------------------------------------------ FCFSTriageSystem
\* The object: nodes = node number -> [data, next_ptr, prev_ptr]; head, tail
\* node numbers (0 = None); size; capacity (Optional[int]).
FCFS_init(max_capacity) ==
    [nodes |-> <<>>, head |-> 0, tail |-> 0, size |-> 0, capacity |-> max_capacity]

FCFS_is_full(q) == q.capacity # None /\ q.size >= q.capacity[1]

FCFS_is_empty(q) == q.size = 0

\* A fresh node: the least number no live node uses (a served node is garbage).
FCFS_new_node(q) ==
    CHOOSE n \in 1..(Cardinality(DOMAIN q.nodes) + 1) :
        n \notin DOMAIN q.nodes /\ \A m \in 1..(n - 1) : m \in DOMAIN q.nodes

FCFS_with_node(nodes, n, node) ==
    [i \in DOMAIN nodes \cup {n} |-> IF i = n THEN node ELSE nodes[i]]

FCFS_without_node(nodes, n) ==
    [i \in DOMAIN nodes \ {n} |-> nodes[i]]

\* Mutant: the new tail is linked forward only, its prev_ptr stays None.
FCFS_arrive_no_back_link(q, patient) ==
    IF FCFS_is_full(q) THEN [q |-> q, ret |-> FALSE]
    ELSE LET n == FCFS_new_node(q)
             fresh == [data |-> patient, next_ptr |-> 0, prev_ptr |-> 0]
         IN  IF q.head = 0
             THEN [q |-> [q EXCEPT !.nodes = FCFS_with_node(q.nodes, n, fresh),
                                   !.head = n, !.tail = n, !.size = q.size + 1],
                   ret |-> TRUE]
             ELSE [q |-> [q EXCEPT
                            !.nodes = FCFS_with_node(
                                          [q.nodes EXCEPT ![q.tail].next_ptr = n], n,
                                          fresh),
                            !.tail = n, !.size = q.size + 1],
                   ret |-> TRUE]

FCFS_arrive(q, patient) ==
    IF FCFS_is_full(q) THEN [q |-> q, ret |-> FALSE]
    ELSE LET n == FCFS_new_node(q)
             fresh == [data |-> patient, next_ptr |-> 0, prev_ptr |-> 0]
         IN  IF q.head = 0
             THEN [q |-> [q EXCEPT !.nodes = FCFS_with_node(q.nodes, n, fresh),
                                   !.head = n, !.tail = n, !.size = q.size + 1],
                   ret |-> TRUE]
             ELSE [q |-> [q EXCEPT
                            !.nodes = FCFS_with_node(
                                          [q.nodes EXCEPT ![q.tail].next_ptr = n], n,
                                          [fresh EXCEPT !.prev_ptr = q.tail]),
                            !.tail = n, !.size = q.size + 1],
                   ret |-> TRUE]

\* Mutant: serve_next unlinks the tail, the latest arrival.
FCFS_serve_next_from_tail(q) ==
    IF q.head = 0 THEN [q |-> q, ret |-> None]
    ELSE LET node == q.nodes[q.tail]
             t2   == node.prev_ptr
         IN  [q |-> [q EXCEPT !.tail = t2,
                              !.nodes = FCFS_without_node(
                                            IF t2 # 0
                                            THEN [q.nodes EXCEPT ![t2].next_ptr = 0]
                                            ELSE q.nodes, q.tail),
                              !.head = IF t2 # 0 THEN q.head ELSE 0,
                              !.size = q.size - 1],
              ret |-> Some(node.data)]

\* Mutant: serve_next unlinks the head but does not count the size down.
FCFS_serve_next_keeps_size(q) ==
    IF q.head = 0 THEN [q |-> q, ret |-> None]
    ELSE LET node == q.nodes[q.head]
             h2   == node.next_ptr
         IN  [q |-> [q EXCEPT !.head = h2,
                              !.nodes = FCFS_without_node(
                                            IF h2 # 0
                                            THEN [q.nodes EXCEPT ![h2].prev_ptr = 0]
                                            ELSE q.nodes, q.head),
                              !.tail = IF h2 # 0 THEN q.tail ELSE 0],
              ret |-> Some(node.data)]

FCFS_serve_next(q) ==
    IF q.head = 0 THEN [q |-> q, ret |-> None]
    ELSE LET node == q.nodes[q.head]
             h2   == node.next_ptr
         IN  [q |-> [q EXCEPT !.head = h2,
                              !.nodes = FCFS_without_node(
                                            IF h2 # 0
                                            THEN [q.nodes EXCEPT ![h2].prev_ptr = 0]
                                            ELSE q.nodes, q.head),
                              !.tail = IF h2 # 0 THEN q.tail ELSE 0,
                              !.size = q.size - 1],
              ret |-> Some(node.data)]

RECURSIVE FCFS_walk(_, _, _)
FCFS_walk(q, current, forward) ==
    IF current = 0 THEN <<>>
    ELSE <<q.nodes[current].data>> \o
         FCFS_walk(q, IF forward THEN q.nodes[current].next_ptr
                      ELSE q.nodes[current].prev_ptr, forward)

traverse_forward(q) == FCFS_walk(q, q.head, TRUE)

traverse_backward(q) == FCFS_walk(q, q.tail, FALSE)

\* --------------------------------------------------------------- heapq
\* A heap entry is the tuple (priority, counter, patient): a record
\* [prio |-> <<-severity, arrival_time>>, counter, patient |-> reference].
\* Python compares the tuples lexicographically: priority, then counter; only
\* entries equal in both would reach a comparison of the Patient objects.
PrioLt(x, y) == x[1] < y[1] \/ (x[1] = y[1] /\ x[2] < y[2])

ComparesPatients(a, b) == a.prio = b.prio /\ a.counter = b.counter

EntryLt(a, b) ==
    IF a.prio # b.prio THEN PrioLt(a.prio, b.prio)
    ELSE IF a.counter # b.counter THEN a.counter < b.counter
    ELSE FALSE

\* heapq._siftdown(heap, startpos, pos), positions 0-based as in heapq.
RECURSIVE siftdown_loop(_, _, _, _)
siftdown_loop(heap, startpos, pos, newitem) ==
    IF pos > startpos /\ EntryLt(newitem, heap[((pos - 1) \div 2) + 1])
    THEN siftdown_loop([heap EXCEPT ![pos + 1] = heap[((pos - 1) \div 2) + 1]],
                       startpos, (pos - 1) \div 2, newitem)
    ELSE [heap EXCEPT ![pos + 1] = newitem]

siftdown(heap, startpos, pos) == siftdown_loop(heap, startpos, pos, heap[pos + 1])

\* heapq._siftup(heap, pos): move the smaller child up until a leaf, then
\* sift the item down from there.
RECURSIVE siftup_loop(_, _, _, _)
siftup_loop(heap, startpos, pos, newitem) ==
    LET endpos   == Len(heap)
        childpos == 2 * pos + 1
        rightpos == childpos + 1
        pick     == IF rightpos < endpos /\ ~EntryLt(heap[childpos + 1], heap[rightpos + 1])
                    THEN rightpos ELSE childpos
    IN  IF childpos < endpos
        THEN siftup_loop([heap EXCEPT ![pos + 1] = heap[pick + 1]], startpos, pick, newitem)
        ELSE siftdown([heap EXCEPT ![pos + 1] = newitem], startpos, pos)

siftup(heap, pos) == siftup_loop(heap, pos, pos, heap[pos + 1])

heappush(heap, item) == siftdown(Append(heap, item), 0, Len(heap))

\* heapq.heappop on a non-empty heap: [item, heap].
heappop(heap) ==
    LET lastelt == heap[Len(heap)]
        rest    == SubSeq(heap, 1, Len(heap) - 1)
    IN  IF rest # <<>>
        THEN [item |-> heap[1], heap |-> siftup([rest EXCEPT ![1] = lastelt], 0)]
        ELSE [item |-> lastelt, heap |-> rest]

\* heapq.heapify: for i in reversed(range(n // 2)): _siftup(x, i)
RECURSIVE heapify_from(_, _)
heapify_from(heap, i) ==
    IF i < 0 THEN heap ELSE heapify_from(siftup(heap, i), i - 1)

heapify(heap) == heapify_from(heap, (Len(heap) \div 2) - 1)

\* ------------------------------------------------- PriorityTriageSystem
\* The object: [heap, counter].  mem is the Patient memory.
PQ_init == [heap |-> <<>>, counter |-> 0]

\* Mutant: the severity is not negated (lowest severity first).
_priority_for_unsigned(patient) == <<patient.severity, patient.arrival_time>>

_priority_for(patient) == <<0 - patient.severity, patient.arrival_time>>

\* Mutant: arrive stamps the entry without advancing the counter.
PQ_arrive_fixed_counter(pq, p, mem) ==
    LET c     == pq.counter
        entry == [prio |-> _priority_for(mem[p]), counter |-> c, patient |-> p]
    IN  [heap |-> heappush(pq.heap, entry), counter |-> c]

PQ_arrive(pq, p, mem) ==
    LET c     == pq.counter + 1
        entry == [prio |-> _priority_for(mem[p]), counter |-> c, patient |-> p]
    IN  [heap |-> heappush(pq.heap, entry), counter |-> c]

\* Mutant: serve_next reads the top entry and leaves it in the heap.
PQ_serve_next_peeks(pq) ==
    IF pq.heap = <<>> THEN [pq |-> pq, ret |-> None]
    ELSE [pq |-> pq, ret |-> Some(pq.heap[1].patient)]

PQ_serve_next(pq) ==
    IF pq.heap = <<>> THEN [pq |-> pq, ret |-> None]
    ELSE [pq  |-> [pq EXCEPT !.heap = heappop(pq.heap).heap],
          ret |-> Some(heappop(pq.heap).item.patient)]

\* Mutant: found_index starts at the first entry instead of "not found".
PQ_find_default_first(heap, patient_id, mem) ==
    IF \E i \in 1..Len(heap) : mem[heap[i].patient].id = patient_id
    THEN CHOOSE i \in 1..Len(heap) :
            /\ mem[heap[i].patient].id = patient_id
            /\ \A j \in 1..(i - 1) : mem[heap[j].patient].id # patient_id
    ELSE IF heap # <<>> THEN 1 ELSE 0

\* The linear scan: index of the first entry whose patient has the id, 0 if none.
PQ_find(heap, patient_id, mem) ==
    IF \E i \in 1..Len(heap) : mem[heap[i].patient].id = patient_id
    THEN CHOOSE i \in 1..Len(heap) :
            /\ mem[heap[i].patient].id = patient_id
            /\ \A j \in 1..(i - 1) : mem[heap[j].patient].id # patient_id
    ELSE 0

\* Mutant: the entry is rewritten but the heap is not re-heapified.
PQ_update_severity_no_heapify(pq, patient_id, new_severity, mem) ==
    LET found_index == PQ_find(pq.heap, patient_id, mem)
    IN  IF found_index = 0 THEN [pq |-> pq, mem |-> mem, ret |-> FALSE]
        ELSE LET old       == pq.heap[found_index]
                 mem2      == [mem EXCEPT ![old.patient].severity = new_severity]
                 new_entry == [prio |-> _priority_for(mem2[old.patient]),
                               counter |-> old.counter, patient |-> old.patient]
             IN  [pq  |-> [pq EXCEPT !.heap = [pq.heap EXCEPT ![found_index] = new_entry]],
                  mem |-> mem2, ret |-> TRUE]

\* Mutant: the severity is written but the entry keeps its old priority key.
PQ_update_severity_keeps_key(pq, patient_id, new_severity, mem) ==
    LET found_index == PQ_find(pq.heap, patient_id, mem)
    IN  IF found_index = 0 THEN [pq |-> pq, mem |-> mem, ret |-> FALSE]
        ELSE LET old  == pq.heap[found_index]
                 mem2 == [mem EXCEPT ![old.patient].severity = new_severity]
             IN  [pq  |-> [pq EXCEPT !.heap = heapify(pq.heap)],
                  mem |-> mem2, ret |-> TRUE]

PQ_update_severity(pq, patient_id, new_severity, mem) ==
    LET found_index == PQ_find(pq.heap, patient_id, mem)
    IN  IF found_index = 0 THEN [pq |-> pq, mem |-> mem, ret |-> FALSE]
        ELSE LET old       == pq.heap[found_index]
                 mem2      == [mem EXCEPT ![old.patient].severity = new_severity]
                 new_entry == [prio |-> _priority_for(mem2[old.patient]),
                               counter |-> old.counter, patient |-> old.patient]
             IN  [pq  |-> [pq EXCEPT !.heap =
                              heapify([pq.heap EXCEPT ![found_index] = new_entry])],
                  mem |-> mem2, ret |-> TRUE]

PQ_is_empty(pq) == pq.heap = <<>>

\* ------------------------------------------------------------ PatientBST
\* A tree is <<>> (None) or <<left, patient reference, right>>.
Leaf(p) == <<<<>>, p, <<>>>>

\* Mutant: the comparison of _insert is reversed, smaller identifiers go right.
RECURSIVE _insert_mirrored(_, _, _)
_insert_mirrored(node, p, mem) ==
    IF node = <<>> THEN Leaf(p)
    ELSE IF mem[p].id > mem[node[2]].id
         THEN <<_insert_mirrored(node[1], p, mem), node[2], node[3]>>
         ELSE <<node[1], node[2], _insert_mirrored(node[3], p, mem)>>

RECURSIVE _insert(_, _, _)
_insert(node, p, mem) ==
    IF node = <<>> THEN Leaf(p)
    ELSE IF mem[p].id < mem[node[2]].id
         THEN <<_insert(node[1], p, mem), node[2], node[3]>>
         ELSE <<node[1], node[2], _insert(node[3], p, mem)>>

BST_insert(root, p, mem) == _insert(root, p, mem)

RECURSIVE leftmost(_)
leftmost(node) == IF node[1] = <<>> THEN node[2] ELSE leftmost(node[1])

\* Mutant: with two children the successor is copied up but not deleted.
RECURSIVE _delete_keeps_successor(_, _, _)
_delete_keeps_successor(node, patient_id, mem) ==
    IF node = <<>> THEN <<>>
    ELSE IF patient_id < mem[node[2]].id
         THEN <<_delete_keeps_successor(node[1], patient_id, mem), node[2], node[3]>>
    ELSE IF patient_id > mem[node[2]].id
         THEN <<node[1], node[2], _delete_keeps_successor(node[3], patient_id, mem)>>
    ELSE IF node[1] = <<>> /\ node[3] = <<>> THEN <<>>
    ELSE IF node[1] = <<>> THEN node[3]
    ELSE IF node[3] = <<>> THEN node[1]
    ELSE <<node[1], leftmost(node[3]), node[3]>>

\* Mutant: a node with only a left child is replaced by its (absent) right child.
RECURSIVE _delete_drops_subtree(_, _, _)
_delete_drops_subtree(node, patient_id, mem) ==
    IF node = <<>> THEN <<>>
    ELSE IF patient_id < mem[node[2]].id
         THEN <<_delete_drops_subtree(node[1], patient_id, mem), node[2], node[3]>>
    ELSE IF patient_id > mem[node[2]].id
         THEN <<node[1], node[2], _delete_drops_subtree(node[3], patient_id, mem)>>
    ELSE IF node[1] = <<>> /\ node[3] = <<>> THEN <<>>
    ELSE IF node[1] = <<>> THEN node[3]
    ELSE IF node[3] = <<>> THEN node[3]
    ELSE LET successor == leftmost(node[3])
         IN  <<node[1], successor,
               _delete_drops_subtree(node[3], mem[successor].id, mem)>>

RECURSIVE _delete(_, _, _)
_delete(node, patient_id, mem) ==
    IF node = <<>> THEN <<>>
    ELSE IF patient_id < mem[node[2]].id
         THEN <<_delete(node[1], patient_id, mem), node[2], node[3]>>
    ELSE IF patient_id > mem[node[2]].id
         THEN <<node[1], node[2], _delete(node[3], patient_id, mem)>>
    ELSE IF node[1] = <<>> /\ node[3] = <<>> THEN <<>>
    ELSE IF node[1] = <<>> THEN node[3]
    ELSE IF node[3] = <<>> THEN node[1]
    ELSE LET successor == leftmost(node[3])
         IN  <<node[1], successor, _delete(node[3], mem[successor].id, mem)>>

\* Mutant: a miss makes the root None instead of leaving the tree as it is.
delete_by_id_clears_on_miss(root, patient_id, mem) ==
    IF _delete(root, patient_id, mem) = root THEN <<>>
    ELSE _delete(root, patient_id, mem)

delete_by_id(root, patient_id, mem) == _delete(root, patient_id, mem)

\* _update_severity: the reference of the node it writes, None if not found.
RECURSIVE BST_locate(_, _, _)
BST_locate(node, patient_id, mem) ==
    IF node = <<>> THEN None
    ELSE IF mem[node[2]].id = patient_id THEN Some(node[2])
    ELSE IF patient_id < mem[node[2]].id THEN BST_locate(node[1], patient_id, mem)
    ELSE BST_locate(node[3], patient_id, mem)

BST_update_severity(root, patient_id, new_severity, mem) ==
    LET hit == BST_locate(root, patient_id, mem)
    IN  IF hit = None THEN [mem |-> mem, ret |-> FALSE]
        ELSE [mem |-> [mem EXCEPT ![hit[1]].severity = new_severity], ret |-> TRUE]

RECURSIVE inorder(_)
inorder(node) ==
    IF node = <<>> THEN <<>> ELSE inorder(node[1]) \o <<node[2]>> \o inorder(node[3])

RECURSIVE preorder(_)
preorder(node) ==
    IF node = <<>> THEN <<>> ELSE <<node[2]>> \o preorder(node[1]) \o preorder(node[3])

RECURSIVE postorder(_)
postorder(node) ==
    IF node = <<>> THEN <<>> ELSE postorder(node[1]) \o postorder(node[3]) \o <<node[2]>>

BST_is_empty(root) == root = <<>>

\* ===================================================================
\* State
\* ===================================================================
VARIABLES
    pc,               \* where the program is: before / after construction
    patients,         \* Patient memory: reference -> Patient fields
    pq,               \* PriorityTriageSystem  (optimized.py: pq)
    patient_bst,      \* PatientBST root       (optimized.py: patient_bst)
    arrival_counter,  \* the menu's arrival_counter
    doctor_rotation,  \* Optional DoctorRotation
    history_stack,    \* Optional ServedHistoryStack
    fcfs,             \* Optional FCFSTriageSystem (baseline.py: system)
    raised,           \* exception raised by the last call, "none" if none
    last              \* the last operation: what it returned and printed

vars == <<pc, patients, pq, patient_bst, arrival_counter, doctor_rotation,
          history_stack, fcfs, raised, last>>

\* A fresh Patient object: objects are numbered in the order of their creation
\* (created = the number of Patient objects made so far).
NewRef(created) == created + 1

SeqRange(sq) == {sq[i] : i \in 1..Len(sq)}

HeapRefs(heap) == {heap[i].patient : i \in 1..Len(heap)}
TreeRefs(root) == SeqRange(inorder(root))

\* Objects no structure references any more are garbage.
Collect(mem, heap, root) ==
    [r \in (DOMAIN mem) \cap (HeapRefs(heap) \cup TreeRefs(root)) |-> mem[r]]

HeapIds == {patients[r].id : r \in HeapRefs(pq.heap)}
TreeIds == {patients[r].id : r \in TreeRefs(patient_bst)}
WaitingIds == HeapIds \cup TreeIds

Init ==
    /\ pc = "start"
    /\ patients = <<>>
    /\ pq = PQ_init
    /\ patient_bst = <<>>
    /\ arrival_counter = 0
    /\ doctor_rotation = None
    /\ history_stack = None
    /\ fcfs = None
    /\ raised = "none"
    /\ last = [op |-> "init"]

\* ===================================================================
\* optimized.py __main__: the priority triage session
\* ===================================================================
DoctorNames(num_docs) == [i \in 1..num_docs |-> DoctorName(i)]

\* Lines 274-292: rotation built and one cycle displayed, history stack,
\* empty BST, arrival_counter = 0, empty priority queue.
Startup(num_docs, history_size) ==
    /\ pc = "start"
    /\ LET made == DoctorRotation_init(DoctorNames(num_docs))
       IN  /\ raised' = made.raised
           /\ doctor_rotation' = Some(next_doctor_times(made.obj[1], num_docs))
    /\ history_stack' = Some(Stack_init(history_size))
    /\ patient_bst' = <<>>
    /\ arrival_counter' = 0
    /\ pq' = PQ_init
    /\ pc' = "menu"
    /\ last' = [op |-> "startup"]
    /\ UNCHANGED <<patients, fcfs>>

\* Mutant: the arrival sequence is taken from the number of waiting patients.
Admit_numbers_by_queue_length(name, pid, severity) ==
    /\ pc = "menu"
    /\ arrival_counter < MaxArrivals
    /\ LET p   == NewRef(arrival_counter)
           mem == [r \in DOMAIN patients \cup {p} |->
                     IF r = p THEN Patient(pid, name, severity, Len(pq.heap) + 1)
                     ELSE patients[r]]
       IN  /\ arrival_counter' = arrival_counter + 1
           /\ patients' = mem
           /\ pq' = PQ_arrive(pq, p, mem)
           /\ patient_bst' = BST_insert(patient_bst, p, mem)
           /\ last' = [op |-> "admit"]
    /\ UNCHANGED <<pc, doctor_rotation, history_stack, fcfs, raised>>

\* Choice 1: add patient.
Admit(name, pid, severity) ==
    /\ pc = "menu"
    /\ arrival_counter < MaxArrivals
    /\ LET p   == NewRef(arrival_counter)
           mem == [r \in DOMAIN patients \cup {p} |->
                     IF r = p THEN Patient(pid, name, severity, arrival_counter + 1)
                     ELSE patients[r]]
       IN  /\ arrival_counter' = arrival_counter + 1
           /\ patients' = mem
           /\ pq' = PQ_arrive(pq, p, mem)
           /\ patient_bst' = BST_insert(patient_bst, p, mem)
           /\ last' = [op |-> "admit"]
    /\ UNCHANGED <<pc, doctor_rotation, history_stack, fcfs, raised>>

\* Mutant: `updated_pq or patient_bst.update_severity(...)`, the BST half is
\* skipped once the heap half has found the identifier.
UpdateSeverity_short_circuit(pid, new_sev) ==
    /\ pc = "menu"
    /\ LET r1 == PQ_update_severity(pq, pid, new_sev, patients)
           r2 == IF r1.ret THEN [mem |-> r1.mem, ret |-> FALSE]
                 ELSE BST_update_severity(patient_bst, pid, new_sev, r1.mem)
       IN  /\ pq' = r1.pq
           /\ patients' = r2.mem
           /\ last' = [op |-> "update", updated_pq |-> r1.ret, updated_bst |-> r2.ret,
                       printed |-> IF r1.ret \/ r2.ret THEN "success" ELSE "error"]
    /\ UNCHANGED <<pc, patient_bst, arrival_counter, doctor_rotation,
                   history_stack, fcfs, raised>>

\* Choice 2: update patient severity.
UpdateSeverity(pid, new_sev) ==
    /\ pc = "menu"
    /\ LET r1 == PQ_update_severity(pq, pid, new_sev, patients)
           r2 == BST_update_severity(patient_bst, pid, new_sev, r1.mem)
       IN  /\ pq' = r1.pq
           /\ patients' = r2.mem
           /\ last' = [op |-> "update", updated_pq |-> r1.ret, updated_bst |-> r2.ret,
                       printed |-> IF r1.ret \/ r2.ret THEN "success" ELSE "error"]
    /\ UNCHANGED <<pc, patient_bst, arrival_counter, doctor_rotation,
                   history_stack, fcfs, raised>>

\* The history record string "ID=.. | name | Severity=../5 | Dr. .."
HistoryRecord(patient, doctor) ==
    [id |-> patient.id, name |-> patient.name, severity |-> patient.severity,
     doctor |-> doctor]

\* Mutant: the doctor is taken from the rotation before the empty check.
Serve_assigns_doctor_first ==
    /\ pc = "menu"
    /\ LET r == PQ_serve_next(pq)
           d == next_doctor(doctor_rotation[1])
       IN  /\ doctor_rotation' = Some(d.rot)
           /\ IF r.ret = None
              THEN /\ last' = [op |-> "serve", patient |-> None, doctor |-> None,
                               printed |-> "error"]
                   /\ UNCHANGED <<patients, pq, patient_bst, history_stack>>
              ELSE LET patient == patients[r.ret[1]]
                       pushed  == Stack_push(history_stack[1],
                                             HistoryRecord(patient, d.name))
                       root    == delete_by_id(patient_bst, patient.id, patients)
                   IN  /\ pq' = r.pq
                       /\ history_stack' = Some(pushed.st)
                       /\ patient_bst' = root
                       /\ patients' = Collect(patients, r.pq.heap, root)
                       /\ last' = [op |-> "serve", patient |-> Some(patient),
                                   doctor |-> Some(d.name), printed |-> pushed.printed]
    /\ UNCHANGED <<pc, arrival_counter, fcfs, raised>>

\* Mutant: the served patient is not deleted from the BST.
Serve_forgets_index ==
    /\ pc = "menu"
    /\ LET r == PQ_serve_next(pq)
       IN  IF r.ret = None
           THEN /\ last' = [op |-> "serve", patient |-> None, doctor |-> None,
                            printed |-> "error"]
                /\ UNCHANGED <<patients, pq, patient_bst, doctor_rotation, history_stack>>
           ELSE LET patient == patients[r.ret[1]]
                    d       == next_doctor(doctor_rotation[1])
                    record  == HistoryRecord(patient, d.name)
                    pushed  == Stack_push(history_stack[1], record)
                IN  /\ pq' = r.pq
                    /\ doctor_rotation' = Some(d.rot)
                    /\ history_stack' = Some(pushed.st)
                    /\ patient_bst' = patient_bst
                    /\ patients' = Collect(patients, r.pq.heap, patient_bst)
                    /\ last' = [op |-> "serve", patient |-> Some(patient),
                                doctor |-> Some(d.name), printed |-> pushed.printed]
    /\ UNCHANGED <<pc, arrival_counter, fcfs, raised>>

\* Choice 3: serve next patient.
Serve ==
    /\ pc = "menu"
    /\ LET r == PQ_serve_next(pq)
       IN  IF r.ret = None
           THEN /\ last' = [op |-> "serve", patient |-> None, doctor |-> None,
                            printed |-> "error"]
                /\ UNCHANGED <<patients, pq, patient_bst, doctor_rotation, history_stack>>
           ELSE LET patient == patients[r.ret[1]]
                    d       == next_doctor(doctor_rotation[1])
                    record  == HistoryRecord(patient, d.name)
                    pushed  == Stack_push(history_stack[1], record)
                    root    == delete_by_id(patient_bst, patient.id, patients)
                IN  /\ pq' = r.pq
                    /\ doctor_rotation' = Some(d.rot)
                    /\ history_stack' = Some(pushed.st)
                    /\ patient_bst' = root
                    /\ patients' = Collect(patients, r.pq.heap, root)
                    /\ last' = [op |-> "serve", patient |-> Some(patient),
                                doctor |-> Some(d.name), printed |-> pushed.printed]
    /\ UNCHANGED <<pc, arrival_counter, fcfs, raised>>

\* Mutant: the patients are handed to the FCFS queue unsorted, in heap order.
sorted_by_arrival_unsorted(refs, mem) == refs

\* sorted(temp_patients, key=lambda x: x.arrival_time): a stable sort.
RECURSIVE sorted_by_arrival(_, _)
sorted_by_arrival(refs, mem) ==
    IF refs = <<>> THEN <<>>
    ELSE LET x    == refs[Len(refs)]
             rest == sorted_by_arrival(SubSeq(refs, 1, Len(refs) - 1), mem)
         IN  SelectSeq(rest, LAMBDA r : mem[r].arrival_time <= mem[x].arrival_time)
             \o <<x>> \o
             SelectSeq(rest, LAMBDA r : mem[r].arrival_time > mem[x].arrival_time)

\* for p in ...: fcfs.arrive(p)
RECURSIVE FCFS_arrive_all(_, _)
FCFS_arrive_all(q, ps) ==
    IF ps = <<>> THEN q
    ELSE FCFS_arrive_all(FCFS_arrive(q, Head(ps)).q, Tail(ps))

\* while heap_copy: _, _, p = heapq.heappop(heap_copy)
RECURSIVE pop_all(_)
pop_all(heap_copy) ==
    IF heap_copy = <<>> THEN <<>>
    ELSE LET r == heappop(heap_copy)
         IN  <<r.item.patient>> \o pop_all(r.heap)

\* Mutant: heap_copy = pq._heap, the loop pops from the live heap.
Compare_drains_heap ==
    /\ pc = "menu"
    /\ LET temp_patients == [i \in 1..Len(pq.heap) |-> pq.heap[i].patient]
       IN  IF temp_patients = <<>>
           THEN /\ last' = [op |-> "compare", fcfs_order |-> <<>>, pq_order |-> <<>>,
                            printed |-> "error"]
                /\ UNCHANGED pq
           ELSE LET q == FCFS_arrive_all(FCFS_init(None),
                                         sorted_by_arrival(temp_patients, patients))
                IN  /\ last' = [op |-> "compare", fcfs_order |-> traverse_forward(q),
                                pq_order |-> pop_all(heapify(pq.heap)), printed |-> "none"]
                    /\ pq' = [pq EXCEPT !.heap = <<>>]
    /\ UNCHANGED <<pc, patients, patient_bst, arrival_counter, doctor_rotation,
                   history_stack, fcfs, raised>>

\* Choice 4: compare priority queue vs FCFS.  The FCFS queue and the heap copy
\* are locals of the handler; last keeps the two orders it prints.
Compare ==
    /\ pc = "menu"
    /\ LET temp_patients == [i \in 1..Len(pq.heap) |-> pq.heap[i].patient]
       IN  IF temp_patients = <<>>
           THEN last' = [op |-> "compare", fcfs_order |-> <<>>, pq_order |-> <<>>,
                         printed |-> "error"]
           ELSE LET q == FCFS_arrive_all(FCFS_init(None),
                                         sorted_by_arrival(temp_patients, patients))
                    heap_copy == heapify(pq.heap)
                IN  last' = [op |-> "compare", fcfs_order |-> traverse_forward(q),
                             pq_order |-> pop_all(heap_copy), printed |-> "none"]
    /\ UNCHANGED <<pc, patients, pq, patient_bst, arrival_counter, doctor_rotation,
                   history_stack, fcfs, raised>>

\* Choice 6: pop top history record.
PopHistory ==
    /\ pc = "menu"
    /\ LET r == Stack_pop(history_stack[1])
       IN  /\ history_stack' = Some(r.st)
           /\ last' = [op |-> "pop", ret |-> r.ret, printed |-> r.printed]
    /\ UNCHANGED <<pc, patients, pq, patient_bst, arrival_counter, doctor_rotation,
                   fcfs, raised>>

\* Choice 7: peek top history record.
PeekHistory ==
    /\ pc = "menu"
    /\ LET r == Stack_peek(history_stack[1])
       IN  /\ history_stack' = Some(r.st)
           /\ last' = [op |-> "peek", ret |-> r.ret, printed |-> r.printed]
    /\ UNCHANGED <<pc, patients, pq, patient_bst, arrival_counter, doctor_rotation,
                   fcfs, raised>>

\* The menu's caller supplies identifiers unique among the waiting patients.
Next ==
    \/ \E n \in DoctorCounts, h \in HistorySizes : Startup(n, h)
    \/ \E name \in PatientNames, pid \in Ids \ WaitingIds, s \in Severities :
           Admit(name, pid, s)
    \/ \E pid \in Ids, s \in Severities : UpdateSeverity(pid, s)
    \/ Serve
    \/ Compare
    \/ PopHistory
    \/ PeekHistory

Spec == Init /\ [][Next]_vars

\* ===================================================================
\* The classes on their own: one object is constructed with any argument,
\* then its methods are called.
\* ===================================================================
\* All name lists of length 0..n over DoctorPool.
RECURSIVE NameLists(_)
NameLists(n) ==
    IF n = 0 THEN {<<>>}
    ELSE NameLists(n - 1) \cup
         {Append(l, d) : l \in {x \in NameLists(n - 1) : Len(x) = n - 1}, d \in DoctorPool}

\* DoctorRotation(doctor_names)
NewRotation(doctor_names) ==
    /\ pc = "start"
    /\ LET made == DoctorRotation_init(doctor_names)
       IN  /\ raised' = made.raised
           /\ doctor_rotation' = made.obj
           /\ pc' = IF made.raised = "none" THEN "rotation" ELSE "failed"
    /\ last' = [op |-> "DoctorRotation", names |-> doctor_names, calls |-> 0, ret |-> None]
    /\ UNCHANGED <<patients, pq, patient_bst, arrival_counter, history_stack, fcfs>>

\* rotation.next_doctor(); last counts the calls made on the object.
NextDoctor ==
    /\ pc = "rotation"
    /\ last.calls < MaxCalls
    /\ LET r == next_doctor(doctor_rotation[1])
       IN  /\ doctor_rotation' = Some(r.rot)
           /\ last' = [op |-> "next_doctor", names |-> last.names,
                       calls |-> last.calls + 1, ret |-> Some(r.name)]
    /\ UNCHANGED <<pc, patients, pq, patient_bst, arrival_counter, history_stack,
                   fcfs, raised>>

\* ServedHistoryStack(max_capacity)
NewStack(max_capacity) ==
    /\ pc = "start"
    /\ history_stack' = Some(Stack_init(max_capacity))
    /\ pc' = "stack"
    /\ last' = [op |-> "ServedHistoryStack", ret |-> None, printed |-> "none"]
    /\ UNCHANGED <<patients, pq, patient_bst, arrival_counter, doctor_rotation,
                   fcfs, raised>>

Push(value) ==
    /\ pc = "stack"
    /\ LET r == Stack_push(history_stack[1], value)
       IN  /\ history_stack' = Some(r.st)
           /\ last' = [op |-> "push", value |-> value, ret |-> r.ret,
                       printed |-> r.printed]
    /\ UNCHANGED <<pc, patients, pq, patient_bst, arrival_counter, doctor_rotation,
                   fcfs, raised>>

Pop ==
    /\ pc = "stack"
    /\ LET r == Stack_pop(history_stack[1])
       IN  /\ history_stack' = Some(r.st)
           /\ last' = [op |-> "pop", ret |-> r.ret, printed |-> r.printed]
    /\ UNCHANGED <<pc, patients, pq, patient_bst, arrival_counter, doctor_rotation,
                   fcfs, raised>>

Peek ==
    /\ pc = "stack"
    /\ LET r == Stack_peek(history_stack[1])
       IN  /\ history_stack' = Some(r.st)
           /\ last' = [op |-> "peek", ret |-> r.ret, printed |-> r.printed]
    /\ UNCHANGED <<pc, patients, pq, patient_bst, arrival_counter, doctor_rotation,
                   fcfs, raised>>

\* FCFSTriageSystem(max_capacity), max_capacity an Optional[int]
NewFCFS(max_capacity) ==
    /\ pc = "start"
    /\ fcfs' = Some(FCFS_init(max_capacity))
    /\ arrival_counter' = 0
    /\ pc' = "fcfs"
    /\ last' = [op |-> "FCFSTriageSystem", ret |-> None]
    /\ UNCHANGED <<patients, pq, patient_bst, doctor_rotation, history_stack, raised>>

\* baseline.py option 1: the arrival counter advances, then system.arrive(p).
Arrive(name, pid, severity) ==
    /\ pc = "fcfs"
    /\ arrival_counter < MaxArrivals
    /\ arrival_counter' = arrival_counter + 1
    /\ LET p == Patient(pid, name, severity, arrival_counter + 1)
           r == FCFS_arrive(fcfs[1], p)
       IN  /\ fcfs' = Some(r.q)
           /\ last' = [op |-> "arrive", patient |-> p, ret |-> Some(r.ret)]
    /\ UNCHANGED <<pc, patients, pq, patient_bst, doctor_rotation, history_stack, raised>>

\* baseline.py option 2: system.serve_next().
ServeNext ==
    /\ pc = "fcfs"
    /\ LET r == FCFS_serve_next(fcfs[1])
       IN  /\ fcfs' = Some(r.q)
           /\ last' = [op |-> "serve_next", ret |-> r.ret]
    /\ UNCHANGED <<pc, patients, pq, patient_bst, arrival_counter, doctor_rotation,
                   history_stack, raised>>

\* PatientBST()
NewBST ==
    /\ pc = "start"
    /\ patient_bst' = <<>>
    /\ arrival_counter' = 0
    /\ pc' = "bst"
    /\ last' = [op |-> "PatientBST"]
    /\ UNCHANGED <<patients, pq, doctor_rotation, history_stack, fcfs, raised>>

\* PatientBST.insert(Patient(...)) with a freshly built Patient.
Insert(name, pid, severity) ==
    /\ pc = "bst"
    /\ arrival_counter < MaxArrivals
    /\ LET p   == NewRef(arrival_counter)
           mem == [r \in DOMAIN patients \cup {p} |->
                     IF r = p THEN Patient(pid, name, severity, arrival_counter + 1)
                     ELSE patients[r]]
       IN  /\ arrival_counter' = arrival_counter + 1
           /\ patients' = mem
           /\ patient_bst' = BST_insert(patient_bst, p, mem)
           /\ last' = [op |-> "insert"]
    /\ UNCHANGED <<pc, pq, doctor_rotation, history_stack, fcfs, raised>>

\* PatientBST.delete_by_id(patient_id); last keeps the tree the call was made on.
DeleteById(patient_id) ==
    /\ pc = "bst"
    /\ LET root == delete_by_id(patient_bst, patient_id, patients)
       IN  /\ patient_bst' = root
           /\ patients' = Collect(patients, <<>>, root)
           /\ last' = [op |-> "delete_by_id", patient_id |-> patient_id,
                       before |-> patient_bst, mem |-> patients]
    /\ UNCHANGED <<pc, pq, arrival_counter, doctor_rotation, history_stack, fcfs, raised>>

Capacities == (0 - 1)..MaxCapacity

NextClasses ==
    \/ \E names \in NameLists(MaxDoctors) : NewRotation(names)
    \/ NextDoctor
    \/ \E c \in Capacities : NewStack(c)
    \/ \E v \in Entries : Push(v)
    \/ Pop
    \/ Peek
    \/ \E c \in {None} \cup {Some(n) : n \in Capacities} : NewFCFS(c)
    \/ \E name \in PatientNames, pid \in Ids, s \in Severities : Arrive(name, pid, s)
    \/ ServeNext
    \/ NewBST
    \/ \E name \in PatientNames, pid \in Ids \ TreeIds, s \in Severities :
           Insert(name, pid, s)
    \/ \E pid \in Ids : DeleteById(pid)

SpecClasses == Init /\ [][NextClasses]_vars

\* The menu session when the caller also enters identifiers that are already
\* waiting: choice 1 does not look the identifier up before adding.
NextDup ==
    \/ \E n \in DoctorCounts, h \in HistorySizes : Startup(n, h)
    \/ \E name \in PatientNames, pid \in Ids, s \in Severities : Admit(name, pid, s)
    \/ \E pid \in Ids, s \in Severities : UpdateSeverity(pid, s)
    \/ Serve
    \/ Compare
    \/ PopHistory
    \/ PeekHistory

SpecDup == Init /\ [][NextDup]_vars

\* The menu session of optimized.py or any of the classes used on its own.
NextAll == Next \/ NextClasses

SpecAll == Init /\ [][NextAll]_vars

\* ===================================================================
\* Properties
\* ===================================================================
Sev(mem, r) == mem[r].severity
Arr(mem, r) == mem[r].arrival_time

\* a is served before b: higher severity, or equal severity and earlier arrival.
Outranks(mem, a, b) ==
    Sev(mem, a) > Sev(mem, b) \/ (Sev(mem, a) = Sev(mem, b) /\ Arr(mem, a) < Arr(mem, b))

\* while not pq.is_empty(): pq.serve_next()  -- the references in serving order.
RECURSIVE Drain(_)
Drain(heap) ==
    IF heap = <<>> THEN <<>>
    ELSE <<heappop(heap).item.patient>> \o Drain(heappop(heap).heap)

DrainSorted(heap, mem) ==
    LET d == Drain(heap)
    IN  \A i, j \in 1..Len(d) : i < j => Outranks(mem, d[i], d[j])

ServedSomeone == last.op = "serve" /\ last.patient # None

\* ------------------------------------------------------------------ C1
\* C1: with identifiers unique among the waiting patients, after any Admit /
\* UpdateSeverity / Serve sequence the BST and the heap hold the same set of
\* identifiers, and for every identifier the record in the tree and the heap
\* entry agree on severity and arrival sequence (record and priority key).
C1_IndexMatchesHeap ==
    pc = "menu" =>
        /\ TreeIds = HeapIds
        /\ \A i \in 1..Len(pq.heap), r \in TreeRefs(patient_bst) :
              LET e == pq.heap[i]
              IN  patients[e.patient].id = patients[r].id =>
                    /\ patients[e.patient].severity = patients[r].severity
                    /\ patients[e.patient].arrival_time = patients[r].arrival_time
                    /\ e.prio = <<0 - patients[r].severity, patients[r].arrival_time>>

\* Two patients wait after three admissions, a serve and a successful update.
C1_Witness ==
    /\ pc = "menu"
    /\ arrival_counter = 3
    /\ Len(pq.heap) = 2
    /\ last.op = "update" /\ last.updated_pq /\ last.updated_bst

\* ------------------------------------------------------------------ C2
\* C2: every serve_next on a non-empty heap returns and removes the waiting
\* record of highest severity, earliest arrival among those; draining any
\* reachable heap serves in non-increasing severity and, within a severity,
\* in increasing arrival sequence.
C2_ServeNextOrder ==
    /\ [](DrainSorted(pq.heap, patients))
    /\ [][(last'.op = "serve" /\ pq.heap # <<>>) =>
            \E b \in HeapRefs(pq.heap) :
                /\ \A o \in HeapRefs(pq.heap) \ {b} : Outranks(patients, b, o)
                /\ last'.patient = Some(patients[b])
                /\ Len(pq'.heap) = Len(pq.heap) - 1
                /\ HeapRefs(pq'.heap) = HeapRefs(pq.heap) \ {b}]_vars

\* The scenario (1,sev3,arr1), (2,sev5,arr2), (3,sev3,arr3): 2 was served
\* first and the drain of the rest is 1 then 3.
C2_Witness ==
    /\ ServedSomeone
    /\ last.patient = Some(Patient(2, "Ali", 5, 2))
    /\ Len(pq.heap) = 2
    /\ LET d == Drain(pq.heap)
       IN  /\ patients[d[1]] = Patient(1, "Ali", 3, 1)
           /\ patients[d[2]] = Patient(3, "Ali", 3, 3)

\* ------------------------------------------------------------------ C3
ServeCommon ==
    LET rot == doctor_rotation[1]
        served == last'.patient[1]
    IN  /\ served.id \notin TreeIds'
        /\ doctor_rotation'[1].nodes = rot.nodes
        /\ doctor_rotation'[1].current = rot.nodes[rot.current].next_ptr
        /\ last'.doctor = Some(rot.nodes[rot.current].name)

ServePushed ==
    LET h == history_stack[1]
    IN  /\ history_stack'[1].size = h.size + 1
        /\ history_stack'[1].head =
              <<HistoryRecord(last'.patient[1], last'.doctor[1])>> \o h.head
        /\ history_stack'[1].capacity = h.capacity

\* C3 as claimed: every Serve that finds a patient removes the identifier
\* from the index, advances the rotation one step, and the ledger grows by
\* one entry, the new one on top.
C3_ServeAlwaysPushes ==
    [][(last'.op = "serve" /\ pq.heap # <<>>) => (ServeCommon /\ ServePushed)]_vars

\* C3 amended: every Serve that finds a patient removes the identifier from
\* the index and advances the rotation one step; the ledger grows by one
\* entry (new one on top) when it is not full, and when it is full the push
\* is rejected with an error message and the ledger is unchanged.
C3_ServeEffects ==
    [][(last'.op = "serve" /\ pq.heap # <<>>) =>
          /\ ServeCommon
          /\ IF history_stack[1].size < history_stack[1].capacity
             THEN ServePushed /\ last'.printed = "none"
             ELSE history_stack' = history_stack /\ last'.printed = "error"]_vars

\* A patient was served while the ledger of capacity 2 was full.
C3_Witness ==
    /\ ServedSomeone
    /\ last.printed = "error"
    /\ history_stack[1].size = 2 /\ history_stack[1].capacity = 2
    /\ doctor_rotation[1].current = 2

\* ------------------------------------------------------------------ C4
\* C4: a Serve with nobody waiting reports empty and leaves the priority
\* structure, the index, the rotation cursor and the ledger as they were.
C4_EmptyServeChangesNothing ==
    [][(last'.op = "serve" /\ pq.heap = <<>>) =>
          /\ last'.patient = None /\ last'.doctor = None /\ last'.printed = "error"
          /\ UNCHANGED <<pq, patient_bst, patients, doctor_rotation, history_stack,
                         arrival_counter>>]_vars

\* An empty Serve after patients were admitted and served.
C4_Witness ==
    /\ last.op = "serve" /\ last.patient = None
    /\ arrival_counter = 2
    /\ history_stack[1].size = 2

\* ------------------------------------------------------------------ C5
\* A failure the caller can see: the value False, or an exception.
FailureSignalled == last'.ret = Some(FALSE) \/ raised' # "none"

FullArriveRejected ==
    (last'.op = "arrive" /\ fcfs[1].capacity # None /\ fcfs[1].size >= fcfs[1].capacity[1])
        => (fcfs' = fcfs /\ last'.ret = Some(FALSE))

FullPush ==
    last'.op = "push" /\ history_stack[1].size >= history_stack[1].capacity

\* C5: a push to a full FCFS queue or to a full history stack changes neither
\* size nor contents and signals failure to the caller.
C5_FullPushSignalsFailure ==
    [][/\ FullArriveRejected
       /\ FullPush => (history_stack' = history_stack /\ FailureSignalled)]_vars

\* ------------------------------------------------------------------ C6
\* C6 as claimed: a zero or negative capacity is a construction error, so no
\* stack or queue with a non-positive capacity takes part in an operation.
C6_NoNonPositiveCapacity ==
    /\ (pc = "stack" /\ last.op \in {"push", "pop", "peek"})
          => history_stack[1].capacity >= 1
    /\ (pc = "fcfs" /\ last.op \in {"arrive", "serve_next"} /\ fcfs[1].capacity # None)
          => fcfs[1].capacity[1] >= 1

\* ------------------------------------------------------------------ C7
\* C7: on a rotation built from N >= 1 names the k-th next_doctor call
\* returns the name at position (k-1) mod N of the construction order (so the
\* first N calls give each position once and call N+1 the first name again),
\* and no call raises.
C7_RotationCycle ==
    (pc = "rotation" /\ last.op = "next_doctor") =>
        /\ last.ret = Some(last.names[((last.calls - 1) % Len(last.names)) + 1])
        /\ raised = "none"

\* Call N+1 = 4 on three distinct names returned the first name.
C7_Witness ==
    /\ pc = "rotation"
    /\ last.op = "next_doctor"
    /\ last.names = <<"Dr1", "Dr2", "Dr3">>
    /\ last.calls = 4
    /\ last.ret = Some("Dr1")

\* ------------------------------------------------------------------ C8
\* C8: DoctorRotation([]) raises ValueError and no rotation object results.
C8_EmptyRotationRejected ==
    (last.op = "DoctorRotation" /\ last.names = <<>>) =>
        /\ raised = "ValueError"
        /\ doctor_rotation = None
        /\ pc = "failed"

C8_Witness ==
    /\ last.op = "DoctorRotation" /\ last.names = <<>>
    /\ raised = "ValueError"

\* ------------------------------------------------------------------ C9
\* C9: update_severity(id, s) on a waiting identifier returns true, sets the
\* record's severity to s, keeps its arrival sequence and insertion counter
\* and every other record, keeps the number and identity of the waiting
\* records, and the heap then serves by the new severity.
C9_UpdateRanksByNewSeverity ==
    [][\A pid \in Ids, s \in Severities :
          (last'.op = "update" /\ pid \in HeapIds /\ UpdateSeverity(pid, s)) =>
             LET i == PQ_find(pq.heap, pid, patients)
                 r == pq.heap[i].patient
             IN  /\ last'.updated_pq = TRUE
                 /\ patients'[r] = [patients[r] EXCEPT !.severity = s]
                 /\ \A q \in DOMAIN patients \ {r} : patients'[q] = patients[q]
                 /\ DOMAIN patients' = DOMAIN patients
                 /\ Len(pq'.heap) = Len(pq.heap)
                 /\ {<<pq'.heap[k].patient, pq'.heap[k].counter>> : k \in 1..Len(pq'.heap)}
                      = {<<pq.heap[k].patient, pq.heap[k].counter>> : k \in 1..Len(pq.heap)}
                 /\ \A k \in 1..Len(pq'.heap) :
                       pq'.heap[k].patient = r =>
                          pq'.heap[k].prio = <<0 - s, patients[r].arrival_time>>
                 /\ pq'.counter = pq.counter
                 /\ DrainSorted(pq'.heap, patients')]_vars

\* After a successful update the latest of three arrivals is served first.
C9_Witness ==
    /\ last.op = "update" /\ last.updated_pq
    /\ Len(pq.heap) = 3
    /\ patients[pq.heap[1].patient].arrival_time = 3
    /\ patients[pq.heap[1].patient].severity = 5

\* ----------------------------------------------------------------- C10
\* C10: UpdateSeverity with an identifier that is not waiting returns
\* not-found from the heap and from the BST, the menu reports not-found, and
\* no record, ordering, ledger entry or rotation cursor changes.
C10_UpdateAbsentIsNotFound ==
    [][\A pid \in Ids, s \in Severities :
          (last'.op = "update" /\ pid \notin WaitingIds /\ UpdateSeverity(pid, s)) =>
             /\ last'.updated_pq = FALSE
             /\ last'.updated_bst = FALSE
             /\ last'.printed = "error"
             /\ UNCHANGED <<patients, pq, patient_bst, history_stack,
                            doctor_rotation, arrival_counter>>]_vars

\* Not-found reported while patients wait and the ledger holds an entry.
C10_Witness ==
    /\ last.op = "update"
    /\ ~last.updated_pq /\ ~last.updated_bst /\ last.printed = "error"
    /\ Len(pq.heap) = 2
    /\ history_stack[1].size = 1

\* ----------------------------------------------------------------- C11
\* C11: UpdateSeverity attempts the update on the heap and on the BST, each
\* half reporting whether its own structure holds the identifier and writing
\* the new severity there; the menu reports success exactly when at least one
\* half found the identifier and not-found exactly when neither did.
C11_BothHalvesAttempted ==
    [][\A pid \in Ids, s \in Severities :
          (last'.op = "update" /\ UpdateSeverity(pid, s)) =>
             /\ last'.updated_pq = (pid \in HeapIds)
             /\ last'.updated_bst = (pid \in TreeIds)
             /\ (last'.printed = "success") <=> (last'.updated_pq \/ last'.updated_bst)
             /\ (last'.printed = "error") <=> (~last'.updated_pq /\ ~last'.updated_bst)
             /\ \A r \in HeapRefs(pq.heap) \cup TreeRefs(patient_bst) :
                   patients[r].id = pid => patients'[r].severity = s]_vars

\* Both halves found the identifier among two waiting patients.
C11_Witness ==
    /\ last.op = "update"
    /\ last.updated_pq /\ last.updated_bst /\ last.printed = "success"
    /\ Len(pq.heap) = 2
    /\ Len(inorder(patient_bst)) = 2

\* ----------------------------------------------------------------- C12
\* C12: after any sequence of insert and delete_by_id calls with pairwise
\* distinct identifiers, inorder() lists the identifiers in strictly ascending
\* order, whatever the order of the insertions.
C12_InorderAscending ==
    LET listing == inorder(patient_bst)
    IN  \A i, j \in 1..Len(listing) :
           i < j => patients[listing[i]].id < patients[listing[j]].id

\* After a deletion two records remain, the larger identifier inserted first.
C12_Witness ==
    /\ pc = "bst"
    /\ last.op = "delete_by_id"
    /\ Len(inorder(last.before)) = 3
    /\ Len(inorder(patient_bst)) = 2
    /\ patients[inorder(patient_bst)[1]].arrival_time
          > patients[inorder(patient_bst)[2]].arrival_time

\* ----------------------------------------------------------------- C13
\* The subtree of root whose node carries patient_id, <<>> if there is none.
RECURSIVE SubtreeOf(_, _, _)
SubtreeOf(node, patient_id, mem) ==
    IF node = <<>> THEN <<>>
    ELSE IF mem[node[2]].id = patient_id THEN node
    ELSE LET l == SubtreeOf(node[1], patient_id, mem)
         IN  IF l # <<>> THEN l ELSE SubtreeOf(node[3], patient_id, mem)

\* C13: delete_by_id(x) on a tree with distinct identifiers removes exactly
\* the record with identifier x and keeps every other record, each with its own
\* severity and arrival sequence, whether the node is a leaf, has one child or
\* has two children; when x is absent the tree is unchanged.
C13_DeleteRemovesExactlyOne ==
    last.op = "delete_by_id" =>
        LET x      == last.patient_id
            before == inorder(last.before)
            kept   == SelectSeq(before, LAMBDA r : last.mem[r].id # x)
        IN  IF \E r \in SeqRange(before) : last.mem[r].id = x
            THEN /\ inorder(patient_bst) = kept
                 /\ Len(kept) = Len(before) - 1
                 /\ \A r \in SeqRange(kept) : patients[r] = last.mem[r]
            ELSE /\ patient_bst = last.before
                 /\ patients = last.mem

\* The deleted node had two children: its in-order successor took its place.
C13_Witness ==
    /\ last.op = "delete_by_id"
    /\ LET n == SubtreeOf(last.before, last.patient_id, last.mem)
       IN  /\ n # <<>>
           /\ n[1] # <<>> /\ n[3] # <<>>
           /\ patient_bst = <<n[1], n[3][2], <<>>>>

\* ----------------------------------------------------------------- C14
\* C14: Compare changes nothing: heap entries and their order, counter, BST,
\* patient records, ledger, rotation cursor and arrival counter are what they
\* were, so the next Serve returns the same patient and the same doctor.
C14_CompareChangesNothing ==
    [][last'.op = "compare" =>
          /\ UNCHANGED <<patients, pq, patient_bst, history_stack, doctor_rotation,
                         arrival_counter>>
          /\ PQ_serve_next(pq').ret = PQ_serve_next(pq).ret
          /\ next_doctor(doctor_rotation'[1]).name = next_doctor(doctor_rotation[1]).name]_vars

\* A Compare has printed its two orders with two patients waiting and one served.
C14_Witness ==
    /\ last.op = "compare" /\ last.printed = "none"
    /\ Len(pq.heap) = 2
    /\ Len(last.pq_order) = 2
    /\ history_stack[1].size = 1

\* ----------------------------------------------------------------- C15
\* sq lists every member of set exactly once.
IsPermutationOf(sq, set) ==
    /\ SeqRange(sq) = set
    /\ Len(sq) = Cardinality(set)

\* The patients successive serve_next calls return.
RECURSIVE ServeSequence(_)
ServeSequence(p) ==
    IF PQ_serve_next(p).ret = None THEN <<>>
    ELSE <<PQ_serve_next(p).ret[1]>> \o ServeSequence(PQ_serve_next(p).pq)

\* C15: with patients waiting, Compare prints two orders, each a permutation
\* of the waiting records: the FCFS order ascending by arrival sequence, the
\* priority order the one in which repeated Serve calls would return them.
C15_CompareOrders ==
    (last.op = "compare" /\ pq.heap # <<>>) =>
        /\ last.printed = "none"
        /\ IsPermutationOf(last.fcfs_order, HeapRefs(pq.heap))
        /\ IsPermutationOf(last.pq_order, HeapRefs(pq.heap))
        /\ \A i, j \in 1..Len(last.fcfs_order) :
              i < j => Arr(patients, last.fcfs_order[i]) < Arr(patients, last.fcfs_order[j])
        /\ last.pq_order = ServeSequence(pq)
        /\ \A i, j \in 1..Len(last.pq_order) :
              i < j => Outranks(patients, last.pq_order[i], last.pq_order[j])

\* Three patients compared, the two orders differ.
C15_Witness ==
    /\ last.op = "compare"
    /\ Len(last.fcfs_order) = 3
    /\ last.fcfs_order # last.pq_order
    /\ last.pq_order[1] = last.fcfs_order[3]

\* ----------------------------------------------------------------- C16
\* C16: the ServedHistoryStack is last-in-first-out.  An accepted push puts
\* its value on top of the entries present; a rejected push leaves them as they
\* were, so a rejected value never appears; pop returns and removes the top,
\* the most recently accepted entry not yet popped; peek returns the same
\* entry and changes neither size nor contents.
C16_StackIsLifo ==
    [][pc = "stack" =>
          LET st  == history_stack[1]
              st2 == history_stack'[1]
          IN  /\ last'.op = "push" =>
                    IF st.size < st.capacity
                    THEN /\ st2.head = <<last'.value>> \o st.head
                         /\ st2.size = st.size + 1
                    ELSE st2 = st
              /\ last'.op = "pop" =>
                    IF st.head = <<>>
                    THEN last'.ret = None /\ st2 = st
                    ELSE /\ last'.ret = Some(st.head[1])
                         /\ st2.head = Tail(st.head)
                         /\ st2.size = st.size - 1
              /\ last'.op = "peek" =>
                    /\ last'.ret = IF st.head = <<>> THEN None ELSE Some(st.head[1])
                    /\ st2 = st
              /\ st2.capacity = st.capacity]_vars

\* Capacity 2 after push A, push B, push C: C was rejected, the top is B and
\* the size is 2.
C16_Witness ==
    /\ pc = "stack"
    /\ last.op = "push" /\ last.value = "C" /\ last.printed = "error"
    /\ history_stack[1].capacity = 2
    /\ history_stack[1].head = <<"B", "A">>
    /\ history_stack[1].size = 2
    /\ Stack_peek(history_stack[1]).ret = Some("B")

\* ----------------------------------------------------------------- C17
\* The records waiting in the FCFS queue, head first.
FcfsWaiting == IF fcfs = None THEN <<>> ELSE traverse_forward(fcfs[1])

\* C17: the FCFSTriageSystem serves in arrival order.  An arrive that returns
\* True appends its record behind those waiting, an arrive that returns False
\* adds nothing, so a rejected record is never served; serve_next returns and
\* removes the record at the front, the earliest accepted one not yet served,
\* and leaves a free slot, so that the next arrive succeeds; the waiting
\* records are always in ascending arrival sequence.
C17_FcfsServesInArrivalOrder ==
    /\ [](\A i, j \in 1..Len(FcfsWaiting) :
             i < j => FcfsWaiting[i].arrival_time < FcfsWaiting[j].arrival_time)
    /\ [][pc = "fcfs" =>
             /\ last'.op = "arrive" =>
                   /\ last'.ret = Some(~FCFS_is_full(fcfs[1]))
                   /\ FcfsWaiting' = IF last'.ret = Some(TRUE)
                                     THEN Append(FcfsWaiting, last'.patient)
                                     ELSE FcfsWaiting
                   /\ last'.patient.arrival_time = arrival_counter'
                   /\ \A i \in 1..Len(FcfsWaiting) :
                         FcfsWaiting[i].arrival_time < arrival_counter'
             /\ last'.op = "serve_next" =>
                   IF FcfsWaiting = <<>>
                   THEN last'.ret = None /\ FcfsWaiting' = <<>>
                   ELSE /\ last'.ret = Some(Head(FcfsWaiting))
                        /\ FcfsWaiting' = Tail(FcfsWaiting)
                        /\ ~FCFS_is_full(fcfs'[1])
                        /\ \A pid \in Ids, s \in Severities :
                              FCFS_arrive(fcfs'[1],
                                  Patient(pid, "Ali", s, arrival_counter + 1)).ret]_vars

\* Capacity 2, three arrivals: the third was rejected, the first has just
\* been served and only the second waits.
C17_Witness ==
    /\ pc = "fcfs"
    /\ fcfs[1].capacity = Some(2)
    /\ arrival_counter = 3
    /\ last.op = "serve_next"
    /\ last.ret # None
    /\ last.ret[1].arrival_time = 1
    /\ Len(FcfsWaiting) = 1
    /\ FcfsWaiting[1].arrival_time = 2

\* ----------------------------------------------------------------- C18
\* C18: an operation that finds nothing raises nothing and changes nothing:
\* serve_next on an empty FCFSTriageSystem or PriorityTriageSystem returns
\* None, pop and peek on an empty stack return None, update_severity with an
\* absent identifier returns False from the heap and from the BST, and
\* delete_by_id with an absent identifier (empty tree included) is a no-op.
C18_NotFoundChangesNothing ==
    [][/\ last'.op \in {"serve_next", "serve", "pop", "peek", "update", "delete_by_id"} =>
             raised' = "none"
       /\ (pc = "fcfs" /\ last'.op = "serve_next" /\ FCFS_is_empty(fcfs[1])) =>
             last'.ret = None /\ fcfs' = fcfs
       /\ (pc = "menu" /\ last'.op = "serve" /\ PQ_is_empty(pq)) =>
             /\ last'.patient = None
             /\ UNCHANGED <<pq, patients, patient_bst, history_stack, doctor_rotation>>
       /\ (pc \in {"menu", "stack"} /\ last'.op \in {"pop", "peek"}
             /\ Stack_is_empty(history_stack[1])) =>
             last'.ret = None /\ history_stack' = history_stack
       /\ (pc = "menu" /\ last'.op = "update") =>
             \A pid \in Ids \ WaitingIds, s \in Severities :
                UpdateSeverity(pid, s) =>
                   /\ ~last'.updated_pq /\ ~last'.updated_bst
                   /\ UNCHANGED <<pq, patients, patient_bst>>
       /\ (pc = "bst" /\ last'.op = "delete_by_id" /\ last'.patient_id \notin TreeIds) =>
             UNCHANGED <<patient_bst, patients>>]_vars

\* delete_by_id with an absent identifier on a tree of two records.
C18_Witness ==
    /\ pc = "bst"
    /\ last.op = "delete_by_id"
    /\ last.patient_id \notin TreeIds
    /\ last.before = patient_bst
    /\ Len(inorder(patient_bst)) = 2

\* ----------------------------------------------------------------- C19
\* C19: no patient is lost or duplicated.  With identifiers unique among the
\* waiting patients each structure holds every waiting record exactly once and
\* both hold the same records; an Admit adds one record that was never held
\* before, to both; a Serve that finds a patient returns a record held by both
\* and removes exactly that one from both, so no record is returned twice and
\* none that was never admitted; every other operation (UpdateSeverity,
\* Compare, the ledger operations) adds and removes nothing.
C19_NoPatientLostOrDuplicated ==
    /\ [](/\ Len(pq.heap) = Cardinality(HeapRefs(pq.heap))
          /\ Len(inorder(patient_bst)) = Cardinality(TreeRefs(patient_bst))
          /\ HeapRefs(pq.heap) = TreeRefs(patient_bst)
          /\ \A r \in HeapRefs(pq.heap) : patients[r].arrival_time <= arrival_counter)
    /\ [][pc = "menu" =>
             LET H  == HeapRefs(pq.heap)
                 H2 == HeapRefs(pq'.heap)
                 T  == TreeRefs(patient_bst)
                 T2 == TreeRefs(patient_bst')
             IN  /\ last'.op = "admit" =>
                       \E r \in H2 \ H :
                          /\ H2 = H \cup {r} /\ T2 = T \cup {r}
                          /\ patients'[r].arrival_time > arrival_counter
                 /\ last'.op = "serve" =>
                       IF H = {}
                       THEN last'.patient = None /\ H2 = {} /\ T2 = T
                       ELSE \E r \in H :
                               /\ last'.patient = Some(patients[r])
                               /\ H2 = H \ {r} /\ T2 = T \ {r}
                 /\ last'.op \notin {"admit", "serve"} => H2 = H /\ T2 = T
                 /\ \A r \in H \cap H2 :
                       /\ patients'[r].id = patients[r].id
                       /\ patients'[r].name = patients[r].name]_vars

\* The third admitted patient has been served while the first two still wait.
C19_Witness ==
    /\ last.op = "serve"
    /\ last.patient # None
    /\ last.patient[1].arrival_time = 3
    /\ {patients[r].arrival_time : r \in HeapRefs(pq.heap)} = {1, 2}
    /\ {patients[r].arrival_time : r \in TreeRefs(patient_bst)} = {1, 2}

\* ----------------------------------------------------------------- C20
\* The arrival sequences of the records waiting in the heap / the FCFS queue.
HeapArrivals == {patients[r].arrival_time : r \in HeapRefs(pq.heap)}
FcfsArrivals == {FcfsWaiting[i].arrival_time : i \in 1..Len(FcfsWaiting)}

\* C20: every Admit gives its record an arrival sequence strictly greater
\* than that of every record admitted before it, also after serves and, in the
\* baseline menu, after an admission that was rejected at capacity: the record
\* takes the advanced counter, the counter never goes down and no record ever
\* held exceeds it.  Waiting records have pairwise distinct arrival sequences
\* and no operation changes the arrival sequence of a record.
C20_ArrivalSequenceIncreases ==
    /\ [](/\ Cardinality(HeapArrivals) = Len(pq.heap)
          /\ Cardinality(FcfsArrivals) = Len(FcfsWaiting)
          /\ \A a \in HeapArrivals \cup FcfsArrivals : a <= arrival_counter)
    /\ [][/\ pc \in {"menu", "fcfs"} => arrival_counter' >= arrival_counter
          /\ (pc = "menu" /\ last'.op = "admit") =>
                /\ arrival_counter' = arrival_counter + 1
                /\ HeapArrivals' = HeapArrivals \cup {arrival_counter'}
          /\ (pc = "menu" /\ last'.op # "admit") => HeapArrivals' \subseteq HeapArrivals
          /\ (pc = "fcfs" /\ last'.op = "arrive") =>
                /\ arrival_counter' = arrival_counter + 1
                /\ last'.patient.arrival_time = arrival_counter'
                /\ FcfsArrivals' = IF last'.ret = Some(TRUE)
                                   THEN FcfsArrivals \cup {arrival_counter'}
                                   ELSE FcfsArrivals
          /\ (pc = "fcfs" /\ last'.op # "arrive") => FcfsArrivals' \subseteq FcfsArrivals
          /\ \A r \in DOMAIN patients \cap DOMAIN patients' :
                patients'[r].arrival_time = patients[r].arrival_time
          /\ SeqRange(FcfsWaiting') \subseteq
                SeqRange(FcfsWaiting) \cup
                   (IF last'.op = "arrive" THEN {last'.patient} ELSE {})]_vars

\* Baseline, capacity 1: the first record still waits, the second admission
\* was rejected with sequence 2 and the third, rejected too, was given 3.
C20_Witness ==
    /\ pc = "fcfs"
    /\ fcfs[1].capacity = Some(1)
    /\ last.op = "arrive" /\ last.ret = Some(FALSE)
    /\ last.patient.arrival_time = 3
    /\ FcfsArrivals = {1}

\* ----------------------------------------------------------------- C21
\* The number of Serve calls that have returned a patient: every admitted
\* record is either waiting or has been served.
SuccessfulServes == arrival_counter - Len(pq.heap)

\* C21: the rotation advances exactly once per successful Serve and on no
\* other menu operation.  With N doctors the cursor stands on position
\* (k mod N) after k successful Serves, the start-up cycle having returned it
\* to the first doctor, and the k-th successful Serve is assigned the doctor
\* at position (k-1) mod N of the construction order.
C21_RotationAdvancesPerServe ==
    /\ [](pc = "menu" =>
             LET rot == doctor_rotation[1]
                 N   == Len(rot.nodes)
             IN  /\ rot.current = (SuccessfulServes % N) + 1
                 /\ \A i \in 1..N : rot.nodes[i].name = DoctorName(i)
                 /\ ServedSomeone =>
                       last.doctor = Some(DoctorName(((SuccessfulServes - 1) % N) + 1)))
    /\ [][pc = "menu" =>
             IF last'.op = "serve" /\ last'.patient # None
             THEN /\ doctor_rotation' = Some(next_doctor(doctor_rotation[1]).rot)
                  /\ SuccessfulServes' = SuccessfulServes + 1
             ELSE /\ doctor_rotation' = doctor_rotation
                  /\ SuccessfulServes' = SuccessfulServes]_vars

\* Two doctors: the third successful Serve is given the first doctor again.
C21_Witness ==
    /\ ServedSomeone
    /\ Len(doctor_rotation[1].nodes) = 2
    /\ SuccessfulServes = 3
    /\ last.doctor = Some("Dr1")
    /\ doctor_rotation[1].current = 2

\* ----------------------------------------------------------------- C22
\* C22: with identifiers unique among the waiting patients the two halves of
\* UpdateSeverity always agree.  In every reachable state the heap scan and
\* the BST search find the same identifiers, so the two calls of an
\* UpdateSeverity return the same boolean; a state in which one structure
\* holds an identifier the other lacks is never reached.
C22_UpdateHalvesAgree ==
    /\ HeapIds = TreeIds
    /\ \A pid \in Ids :
          (PQ_find(pq.heap, pid, patients) # 0)
             = (BST_locate(patient_bst, pid, patients) # None)
    /\ last.op = "update" => last.updated_pq = last.updated_bst

\* After two serves an update finds the last waiting patient in both halves.
C22_Witness ==
    /\ last.op = "update"
    /\ last.updated_pq /\ last.updated_bst
    /\ arrival_counter = 3
    /\ Len(pq.heap) = 1

\* ----------------------------------------------------------------- C23
\* C23: also when an identifier that is already waiting is admitted again,
\* the heap and the BST hold the same records: every record of one structure
\* is in the other, and a Serve takes out of the BST the record it popped.
C23_SameRecordsWithDuplicates ==
    /\ HeapRefs(pq.heap) = TreeRefs(patient_bst)
    /\ ServedSomeone =>
          \A r \in TreeRefs(patient_bst) : patients[r] # last.patient[1]

\* ----------------------------------------------------------------- C24
\* C24: with identifiers unique among the waiting patients, in every reachable
\* state the priority key stored in a heap entry is (-severity, arrival
\* sequence) of the record the entry carries: no key is stale with respect to
\* the current severity of its record.
C24_HeapKeyNeverStale ==
    \A i \in 1..Len(pq.heap) :
       pq.heap[i].prio = <<0 - Sev(patients, pq.heap[i].patient),
                           Arr(patients, pq.heap[i].patient)>>

\* After an update found in both halves the earlier of two patients, now of
\* lower severity, sits below the later one.
C24_Witness ==
    /\ last.op = "update" /\ last.updated_pq /\ last.updated_bst
    /\ Len(pq.heap) = 2
    /\ pq.heap[1].prio = <<0 - 5, 2>>
    /\ pq.heap[2].prio = <<0 - 3, 1>>
    /\ Sev(patients, pq.heap[2].patient) = 3

\* ----------------------------------------------------------------- C25
\* while not system.is_empty(): system.serve_next(), on a FCFSTriageSystem,
\* stopped after at most limit iterations: the iterations made and the queue left.
RECURSIVE FCFS_drain(_, _)
FCFS_drain(q, limit) ==
    IF limit = 0 \/ FCFS_is_empty(q) THEN [iterations |-> 0, q |-> q]
    ELSE LET rest == FCFS_drain(FCFS_serve_next(q).q, limit - 1)
         IN  [rest EXCEPT !.iterations = @ + 1]

\* The same loop on a PriorityTriageSystem.
RECURSIVE PQ_drain(_, _)
PQ_drain(p, limit) ==
    IF limit = 0 \/ PQ_is_empty(p) THEN [iterations |-> 0, pq |-> p]
    ELSE LET rest == PQ_drain(PQ_serve_next(p).pq, limit - 1)
         IN  [rest EXCEPT !.iterations = @ + 1]

\* Consecutive menu Serves (heap pop, BST delete), at most limit of them, up to
\* the first that reports empty: how many returned a patient, and what is left.
RECURSIVE ServeRun(_, _, _, _)
ServeRun(p, root, mem, limit) ==
    IF limit = 0 \/ PQ_serve_next(p).ret = None
    THEN [served |-> 0, pq |-> p, root |-> root]
    ELSE LET r    == PQ_serve_next(p)
             rest == ServeRun(r.pq, delete_by_id(root, mem[r.ret[1]].id, mem),
                              mem, limit - 1)
         IN  [rest EXCEPT !.served = @ + 1]

\* C25: from any reachable state with n waiting patients, n consecutive
\* Serves return a patient and the next one reports empty, the heap and the
\* BST being empty then; the loop `while not is_empty(): serve_next()` ends on
\* a FCFSTriageSystem and on a PriorityTriageSystem after exactly as many
\* iterations as records are waiting, leaving the structure empty.
C25_DrainTerminates ==
    /\ pc = "menu" =>
          LET n   == Len(pq.heap)
              run == ServeRun(pq, patient_bst, patients, n + 1)
          IN  /\ run.served = n
              /\ PQ_serve_next(run.pq).ret = None
              /\ run.pq.heap = <<>>
              /\ run.root = <<>>
              /\ PQ_drain(pq, n + 1).iterations = n
              /\ PQ_is_empty(PQ_drain(pq, n + 1).pq)
    /\ fcfs # None =>
          LET n   == Len(FcfsWaiting)
              end == FCFS_drain(fcfs[1], n + 1)
          IN  /\ end.iterations = n
              /\ FCFS_is_empty(end.q)
              /\ FCFS_serve_next(end.q).ret = None
              /\ end.q.head = 0

\* Three patients were admitted and served; the fourth Serve reported empty
\* and both structures are empty.
C25_Witness ==
    /\ last.op = "serve" /\ last.patient = None
    /\ arrival_counter = 3
    /\ pq.heap = <<>>
    /\ patient_bst = <<>>

\* ----------------------------------------------------------------- C26
\* sq back to front.
Reverse(sq) == [i \in 1..Len(sq) |-> sq[Len(sq) + 1 - i]]

\* C26: after any sequence of arrive and serve_next the FCFSTriageSystem is a
\* well-formed doubly linked queue: the size counter is the number of nodes
\* reachable from the head, 0 <= size <= capacity when a positive capacity is
\* set, head is None exactly when tail is None exactly when size is 0, the
\* head has no predecessor and the tail no successor, and traverse_backward()
\* is the reverse of traverse_forward().
C26_FcfsWellFormed ==
    fcfs # None =>
        LET q == fcfs[1]
        IN  /\ q.size = Len(traverse_forward(q))
            /\ q.size = Cardinality(DOMAIN q.nodes)
            /\ q.size >= 0
            /\ (q.capacity # None /\ q.capacity[1] >= 1) => q.size <= q.capacity[1]
            /\ (q.head = 0) = (q.tail = 0)
            /\ (q.head = 0) = (q.size = 0)
            /\ q.head # 0 => q.nodes[q.head].prev_ptr = 0
            /\ q.tail # 0 => q.nodes[q.tail].next_ptr = 0
            /\ traverse_backward(q) = Reverse(traverse_forward(q))

\* A queue of capacity 2, full after three arrivals and a serve.
C26_Witness ==
    /\ pc = "fcfs"
    /\ last.op = "arrive" /\ last.ret = Some(TRUE)
    /\ arrival_counter = 3
    /\ fcfs[1].capacity = Some(2)
    /\ fcfs[1].size = 2
    /\ Len(traverse_backward(fcfs[1])) = 2
    /\ traverse_backward(fcfs[1])[1].arrival_time = 3

\* ----------------------------------------------------------------- C27
\* C27: after any sequence of push, pop and peek on a ServedHistoryStack of
\* capacity c >= 1: 0 <= size <= c, the size counter is the number of linked
\* entries, is_empty() (head pointer) holds exactly when the size counter is 0,
\* is_empty() and is_full() never hold together, and after a pop that returned
\* an entry, from a full stack included, the next push is accepted.
C27_StackSizeConsistent ==
    (pc = "stack" /\ history_stack[1].capacity >= 1) =>
        LET st == history_stack[1]
        IN  /\ 0 <= st.size /\ st.size <= st.capacity
            /\ st.size = Len(st.head)
            /\ Stack_is_empty(st) = (st.size = 0)
            /\ ~(Stack_is_empty(st) /\ Stack_is_full(st))
            /\ (last.op = "pop" /\ last.ret # None) =>
                  /\ ~Stack_is_full(st)
                  /\ \A v \in Entries :
                        /\ Stack_push(st, v).printed = "none"
                        /\ Stack_push(st, v).st.head = <<v>> \o st.head

\* A pop has just taken the top entry off a full stack of capacity 2.
C27_Witness ==
    /\ pc = "stack"
    /\ history_stack[1].capacity = 2
    /\ last.op = "pop" /\ last.ret = Some("B")
    /\ history_stack[1].size = 1
    /\ history_stack[1].head = <<"A">>

\* ----------------------------------------------------------------- C28
\* The (record, counter) pairs of the heap entries.
HeapCounters == {<<pq.heap[i].patient, pq.heap[i].counter>> : i \in 1..Len(pq.heap)}

\* C28: no two heap entries carry the same insertion counter.  arrive stamps
\* its entry with a counter greater than every counter given out before,
\* serve_next gives none out, update_severity leaves every entry its own
\* counter; so two entries always differ in (priority key, counter) and their
\* comparison never reaches the Patient records.
C28_CountersUnique ==
    /\ [](/\ \A i, j \in 1..Len(pq.heap) :
                i # j => /\ pq.heap[i].counter # pq.heap[j].counter
                         /\ ~ComparesPatients(pq.heap[i], pq.heap[j])
          /\ \A i \in 1..Len(pq.heap) :
                pq.heap[i].counter >= 1 /\ pq.heap[i].counter <= pq.counter)
    /\ [][pc = "menu" =>
             IF last'.op = "admit"
             THEN /\ pq'.counter = pq.counter + 1
                  /\ \E r \in HeapRefs(pq'.heap) \ HeapRefs(pq.heap) :
                        HeapCounters' = HeapCounters \cup {<<r, pq'.counter>>}
             ELSE /\ pq'.counter = pq.counter
                  /\ HeapCounters' \subseteq HeapCounters
                  /\ last'.op # "serve" => HeapCounters' = HeapCounters]_vars

\* Three entries with counters 1, 2, 3 after an update has rebuilt one of them.
C28_Witness ==
    /\ last.op = "update" /\ last.updated_pq
    /\ pq.counter = 3
    /\ {pq.heap[i].counter : i \in 1..Len(pq.heap)} = {1, 2, 3}
    /\ pq.heap[1].counter = 2

====
